---------------------------- MODULE Spec2Model ----------------------------
(***************************************************************************)
(* NASA Data Explorer (streamlit_app.py).                                  *)
(*                                                                         *)
(* The program is a Streamlit script: every user interaction re-runs the   *)
(* whole script for the selected page, which reads the widget values,      *)
(* issues one GET through fetch_nasa_data, reshapes the JSON and renders.  *)
(* One Render action of the model is one such run of one page; Rerun is    *)
(* the user interaction that discards the rendered page and triggers the   *)
(* next run.  The variables hold what the current run read, requested,     *)
(* computed and displayed.                                                 *)
(*                                                                         *)
(* The four get_* functions are decorated with st.cache_data: the server   *)
(* process keeps, per function and argument tuple, the value the function  *)
(* returned and the elements it showed, and serves them again until the    *)
(* entry is older than the decorator's ttl.  The cache outlives a run and  *)
(* a rerun; it is empty after Restart, the start of a new server process.  *)
(* The page specifications follow single runs from an empty cache;         *)
(* SpecCache follows sequences of runs over the same arguments while the   *)
(* clock advances.                                                         *)
(*                                                                         *)
(* Representation of Python values:                                        *)
(*   str that is split, parsed or concatenated : tuple of 1-char strings   *)
(*   str that is only compared or copied       : TLA+ string               *)
(*   dict                                      : function on its keys      *)
(*   list                                      : sequence                  *)
(*   None / a value where None is possible     : <<>> / <<value>>          *)
(*   datetime.date                             : [year, month, day]        *)
(***************************************************************************)
EXTENDS Integers, Sequences, FiniteSets, TLC

VARIABLES
    json_error_caught,  \* TRUE iff the installed requests raises a RequestException
                        \* subclass from response.json() (requests >= 2.27)
    page,               \* page the run rendered, "none" while a run is pending
    upstream,           \* what the remote service did with the run's GET
    requests,           \* the GET requests the run issued, in order
    messages,           \* st.error / st.warning / st.info elements the run showed
    status,             \* "ok", or "exception" when the run ended in an uncaught one
    input,              \* the widget values the run read
    view,               \* what the run computed for display
    cache,              \* the st.cache_data entries of each decorated function
    now                 \* seconds since the server process started

vars == <<json_error_caught, page, upstream, requests, messages, status, input, view,
          cache, now>>

---------------------------------------------------------------------------
(* Bounds of the model *)

MaxPhotos == 4      \* photos in one rover response
MaxImages == 4      \* descriptors in one EPIC response
MaxSolKeys == 2     \* entries of sol_keys in one weather response
MaxNeosPerDate == 2 \* objects under one date key
MaxSpan == 9        \* the date widgets range over MaxSpan + 1 consecutive days

---------------------------------------------------------------------------
(* Python values *)

None == <<>>
Some(x) == <<x>>
IsNone(o) == o = <<>>
Val(o) == o[1]

EmptyDict == <<>>

\* bool(d) of a dict or list: non-empty
Truthy(d) == DOMAIN d # {}

\* bool(o) of "None or a dict/list"
TruthyOpt(o) == ~IsNone(o) /\ Truthy(Val(o))

\* d.get(key, default)
DictGet(d, key, default) == IF key \in DOMAIN d THEN d[key] ELSE default

\* all sequences over S of length at most n
SeqsUpTo(S, n) == UNION {[1..k -> S] : k \in 0..n}

\* seq[i:j] with 0-based i, exclusive j, clipped at the end like a Python slice
Slice(seq, i, j) ==
    LET hi == IF j < Len(seq) THEN j ELSE Len(seq)
    IN  IF i >= hi THEN <<>> ELSE [k \in 1..(hi - i) |-> seq[i + k]]

Digits == <<"0","1","2","3","4","5","6","7","8","9">>

IsDigit(c) == \E k \in 1..10 : Digits[k] = c

DigitValue(c) == (CHOOSE k \in 1..10 : Digits[k] = c) - 1

\* int(s) for a str of decimal digits
RECURSIVE IntOf(_)
IntOf(s) ==
    IF Len(s) = 0 THEN 0
    ELSE 10 * IntOf(SubSeq(s, 1, Len(s) - 1)) + DigitValue(s[Len(s)])

\* whether int(s) succeeds (the identifiers of the model carry no sign or blanks)
IntParses(s) == Len(s) > 0 /\ \A k \in 1..Len(s) : IsDigit(s[k])

\* the decimal digits of n >= 0, zero-padded to at least w characters (%0wd)
RECURSIVE ZeroPad(_, _)
ZeroPad(n, w) ==
    IF n < 10 /\ w <= 1 THEN <<Digits[n + 1]>>
    ELSE ZeroPad(n \div 10, w - 1) \o <<Digits[(n % 10) + 1]>>

\* s.split(sep) for a one-character sep
RECURSIVE SplitOn(_, _)
SplitOn(s, sep) ==
    IF \A k \in 1..Len(s) : s[k] # sep THEN <<s>>
    ELSE LET p == CHOOSE k \in 1..Len(s) :
                      s[k] = sep /\ \A m \in 1..(k - 1) : s[m] # sep
         IN  <<SubSeq(s, 1, p - 1)>> \o SplitOn(SubSeq(s, p + 1, Len(s)), sep)

\* s.replace(old, new) for one-character old and new
Replace(s, old, new) == [k \in 1..Len(s) |-> IF s[k] = old THEN new ELSE s[k]]

---------------------------------------------------------------------------
(* datetime.date *)

IsLeap(y) == (y % 4 = 0) /\ ((y % 100 # 0) \/ (y % 400 = 0))

DaysInMonth(y, m) ==
    IF m = 2 THEN (IF IsLeap(y) THEN 29 ELSE 28)
    ELSE IF m \in {4, 6, 9, 11} THEN 30 ELSE 31

RECURSIVE DaysBeforeMonth(_, _)
DaysBeforeMonth(y, m) ==
    IF m = 1 THEN 0 ELSE DaysBeforeMonth(y, m - 1) + DaysInMonth(y, m - 1)

DaysBeforeYear(y) ==
    (y - 1) * 365 + ((y - 1) \div 4) - ((y - 1) \div 100) + ((y - 1) \div 400)

\* date.toordinal()
ToOrdinal(d) == DaysBeforeYear(d.year) + DaysBeforeMonth(d.year, d.month) + d.day

\* (a - b).days
DaysBetween(a, b) == ToOrdinal(a) - ToOrdinal(b)

\* d + timedelta(days=1)
NextDay(d) ==
    IF d.day < DaysInMonth(d.year, d.month) THEN [d EXCEPT !.day = d.day + 1]
    ELSE IF d.month < 12 THEN [d EXCEPT !.month = d.month + 1, !.day = 1]
    ELSE [year |-> d.year + 1, month |-> 1, day |-> 1]

\* d + timedelta(days=n), n >= 0
RECURSIVE PlusDays(_, _)
PlusDays(d, n) == IF n = 0 THEN d ELSE PlusDays(NextDay(d), n - 1)

\* d.strftime("%Y-%m-%d")
Strftime(d) ==
    ZeroPad(d.year, 4) \o <<"-">> \o ZeroPad(d.month, 2) \o <<"-">> \o ZeroPad(d.day, 2)

\* the first day the date widgets of the model offer
FirstDay == [year |-> 2023, month |-> 12, day |-> 27]

DateChoices == {PlusDays(FirstDay, k) : k \in 0..MaxSpan}

---------------------------------------------------------------------------
(* Sidebar inputs shared by the pages *)

ApiKeys == { <<"D","E","M","O","_","K","E","Y">>, <<"k","1">> }

---------------------------------------------------------------------------
(* fetch_nasa_data *)

\* Outcomes of the GET other than a parsed JSON body:
\*   unreachable  requests.get raises ConnectionError / Timeout
\*   http_error   raise_for_status raises HTTPError
\*   malformed    response.json() raises the library's JSON decode error
FailureKinds == {"unreachable", "http_error", "malformed"}

Failed(kind) == [kind |-> kind]
Answered(body) == [kind |-> "ok", body |-> body]

\* an except clause naming requests.exceptions.ConnectionError only
IsConnectionError(up) == up.kind = "unreachable"

\* whether the exception of a failed GET is a requests.exceptions.RequestException
IsRequestException(up) ==
    \/ up.kind \in {"unreachable", "http_error"}
    \/ up.kind = "malformed" /\ json_error_caught

\* The result of fetch_nasa_data(url, params) when the service does `up`:
\* ret is the value returned, error whether st.error was shown, raised whether
\* an exception left the function.
fetch_nasa_data(up) ==
    IF up.kind = "ok"
        THEN [ret |-> Some(up.body), error |-> FALSE, raised |-> FALSE]
    ELSE IF IsRequestException(up)
        THEN [ret |-> None, error |-> TRUE, raised |-> FALSE]
    ELSE [ret |-> None, error |-> FALSE, raised |-> TRUE]

FetchMessages(f) == IF f.error THEN {"fetch_error"} ELSE {}

\* the outcome of a function body that only returns fetch_nasa_data(url, params)
ReturnFetched(up) ==
    LET f == fetch_nasa_data(up)
    IN  [ret |-> f.ret, messages |-> FetchMessages(f), raised |-> f.raised]

---------------------------------------------------------------------------
(* st.cache_data *)

\* ttl of the decorators, in seconds
RoverPhotosTtl == 3600
NeoDataTtl == 3600
MarsWeatherTtl == 86400
EpicImagesTtl == 3600

\* the caches of a fresh server process, one per decorated function
NoCache ==
    [get_rover_photos |-> EmptyDict, get_neo_data |-> EmptyDict,
     get_mars_weather |-> EmptyDict, get_epic_images |-> EmptyDict]

\* whether the cache c of a function holds an entry for the arguments `key`
\* that is younger than ttl
Fresh(c, key, ttl) == key \in DOMAIN c /\ now - c[key].stored_at < ttl

\* the cache with the entry of `key` written or replaced
Put(c, key, entry) ==
    [k \in DOMAIN c \cup {key} |-> IF k = key THEN entry ELSE c[k]]

\* A call of a decorated function with arguments `key`, where `call` is what
\* the function body does when it runs.  A fresh entry is served without
\* running the body: its value is returned and its elements are shown again.
\* Otherwise the body runs; what it returns is stored, whatever the value; an
\* exception leaving the body is passed on and nothing is stored.
cache_data(c, key, ttl, call) ==
    IF Fresh(c, key, ttl)
        THEN [ret |-> c[key].ret, messages |-> c[key].messages, raised |-> FALSE,
              hit |-> TRUE, store |-> c]
    ELSE IF call.raised
        THEN [ret |-> None, messages |-> {}, raised |-> TRUE,
              hit |-> FALSE, store |-> c]
    ELSE [ret |-> call.ret, messages |-> call.messages, raised |-> FALSE,
          hit |-> FALSE,
          store |-> Put(c, key, [ret |-> call.ret, messages |-> call.messages,
                                 stored_at |-> now])]

---------------------------------------------------------------------------
(* Mars Rover Photos page *)

Rovers == {"Curiosity", "Opportunity", "Perseverance"}

\* rover.lower() on the values of the selectbox
Lower(rover) ==
    CASE rover = "Curiosity" -> "curiosity"
      [] rover = "Opportunity" -> "opportunity"
      [] rover = "Perseverance" -> "perseverance"

CameraNames == {"FHAZ", "NAVCAM"}

\* a response body {"photos": [...]}; the descriptors carry distinct ids
PhotosBody(cams) ==
    [k \in {"photos"} |->
        [i \in 1..Len(cams) |-> [id |-> i, camera |-> [name |-> cams[i]]]]]

RoverBodies == {PhotosBody(cams) : cams \in SeqsUpTo(CameraNames, MaxPhotos)} \cup {EmptyDict}

RoverUpstreams == {Failed(k) : k \in FailureKinds} \cup {Answered(b) : b \in RoverBodies}

\* get_rover_photos(rover, date, api_key): the request it sends
RoverRequest(rover, date, api_key) ==
    [endpoint |-> "mars-photos", rover |-> rover,
     params |-> [earth_date |-> Strftime(date), api_key |-> api_key]]

\* photos = data.get("photos", []) if data else []
PhotosOf(data) == IF TruthyOpt(data) THEN DictGet(Val(data), "photos", <<>>) ELSE <<>>

\* cameras = list(set(photo["camera"]["name"] for photo in photos))
CamerasOf(photos) == {photos[i].camera.name : i \in 1..Len(photos)}

\* [photo for photo in photos if photo["camera"]["name"] == selected_camera]
RECURSIVE PhotosWithCamera(_, _)
PhotosWithCamera(photos, selected_camera) ==
    IF photos = <<>> THEN <<>>
    ELSE (IF Head(photos).camera.name = selected_camera THEN <<Head(photos)>> ELSE <<>>)
         \o PhotosWithCamera(Tail(photos), selected_camera)

\* the filter applied whatever the selection
CameraFilterAlways(photos, selected_camera) == PhotosWithCamera(photos, selected_camera)

\* if selected_camera != "All": photos = [...]
CameraFilter(photos, selected_camera) ==
    IF selected_camera # "All" THEN PhotosWithCamera(photos, selected_camera) ELSE photos

cols == 3

\* for i in range(0, len(seq), cols): row = seq[i:i+cols]
RECURSIVE GridRowsFrom(_, _)
GridRowsFrom(seq, i) ==
    IF i >= Len(seq) THEN <<>>
    ELSE <<Slice(seq, i, i + cols)>> \o GridRowsFrom(seq, i + cols)

\* the rows with the loop stopping before a partial last row
RECURSIVE FullRowsFrom(_, _)
FullRowsFrom(seq, i) ==
    IF i + cols > Len(seq) THEN <<>>
    ELSE <<Slice(seq, i, i + cols)>> \o FullRowsFrom(seq, i + cols)

GridRowsFullOnly(seq) == FullRowsFrom(seq, 0)

GridRows(seq) == GridRowsFrom(seq, 0)

NoRoverView ==
    [data |-> None, fetched |-> <<>>, selected_camera |-> "All",
     photos |-> <<>>, grid |-> <<>>]

\* get_rover_photos(rover, date, api_key) when the service does `up`
get_rover_photos(up) == ReturnFetched(up)

\* one run of the page with the given widget values, the service doing `up`
\* if it is asked
RoverPhotosRun(rover, earth_date, api_key, up) ==
    LET f == cache_data(cache.get_rover_photos, <<Lower(rover), earth_date, api_key>>,
                        RoverPhotosTtl, get_rover_photos(up))
        fetched == PhotosOf(f.ret)
    IN  /\ page' = "Mars Rover Photos"
        /\ input' = [rover |-> rover, earth_date |-> earth_date, api_key |-> api_key]
        /\ upstream' = IF f.hit THEN Failed("none") ELSE up
        /\ requests' = IF f.hit THEN <<>>
                       ELSE <<RoverRequest(Lower(rover), earth_date, api_key)>>
        /\ cache' = [cache EXCEPT !.get_rover_photos = f.store]
        /\ IF f.raised
             THEN /\ status' = "exception"
                  /\ messages' = {}
                  /\ view' = NoRoverView
           ELSE IF fetched = <<>>
             THEN /\ status' = "ok"
                  /\ messages' = f.messages \cup {"no_photos_info"}
                  /\ view' = [NoRoverView EXCEPT !.data = f.ret]
           ELSE \E selected_camera \in {"All"} \cup CamerasOf(fetched) :
                  LET photos == CameraFilter(fetched, selected_camera)
                  IN  /\ status' = "ok"
                      /\ messages' = f.messages
                      /\ view' = [data |-> f.ret, fetched |-> fetched,
                                  selected_camera |-> selected_camera,
                                  photos |-> photos, grid |-> GridRows(photos)]
        /\ UNCHANGED <<json_error_caught, now>>

RenderRoverPhotos ==
    /\ page = "none"
    /\ \E rover \in Rovers, earth_date \in {FirstDay, PlusDays(FirstDay, 7)},
       api_key \in ApiKeys, up \in RoverUpstreams :
        RoverPhotosRun(rover, earth_date, api_key, up)

---------------------------------------------------------------------------
(* Earth Imagery (EPIC) page *)

ImageTypes == {"Natural Color", "Enhanced Color"}

\* image_type_param = "natural" if image_type == "Natural Color" else "enhanced"
ImageTypeParam(image_type) ==
    IF image_type = "Natural Color"
        THEN <<"n","a","t","u","r","a","l">>
    ELSE <<"e","n","h","a","n","c","e","d">>

\* The capture instants the model's service knows: date parts, time and the
\* optional fraction of the "date" string, and the identifier.
EpicStamps ==
    { [y |-> <<"2","0","2","3">>, m |-> <<"0","7">>, d |-> <<"1","4">>,
       t |-> <<"0","0",":","1","7",":","5","1">>, frac |-> <<>>,
       identifier |-> <<"2","0","2","3","0","7","1","4","0","0","1","7","5","1","_","0","1">>],
      [y |-> <<"2","0","2","3">>, m |-> <<"0","7">>, d |-> <<"1","4">>,
       t |-> <<"0","2",":","0","5",":","4","4">>, frac |-> <<".","1","2","3">>,
       identifier |-> <<"2","0","2","3","0","7","1","4","0","2","0","5","4","4">>],
      [y |-> <<"2","0","2","4">>, m |-> <<"0","1">>, d |-> <<"0","5">>,
       t |-> <<"2","3",":","5","9",":","0","8">>, frac |-> <<>>,
       identifier |-> <<"2","0","2","4","0","1","0","5","2","3","5","9","0","8">>] }

\* the "date" string 'YYYY-MM-DD HH:MM:SS[.fff]' of a descriptor
EpicDateString(y, m, d, t, frac) ==
    y \o <<"-">> \o m \o <<"-">> \o d \o <<" ">> \o t \o frac

\* an element of the response array (the fields the URL is built from)
EpicDescriptor(s) ==
    [date |-> EpicDateString(s.y, s.m, s.d, s.t, s.frac), identifier |-> s.identifier]

EpicDescriptors == {EpicDescriptor(s) : s \in EpicStamps}

EpicBodies == SeqsUpTo(EpicDescriptors, MaxImages)

EpicUpstreams == {Failed(k) : k \in FailureKinds} \cup {Answered(b) : b \in EpicBodies}

\* get_epic_images(date, image_type, api_key): the request it sends
EpicRequest(date, image_type, api_key) ==
    [endpoint |-> "EPIC", image_type |-> image_type,
     params |-> [date |-> Strftime(date), api_key |-> api_key]]

EpicArchive ==
    <<"h","t","t","p","s",":","/","/","a","p","i",".","n","a","s","a",".","g","o","v",
      "/","E","P","I","C","/","a","r","c","h","i","v","e","/">>

\* the date part left with its dashes
ImageDateDashed(image) == SplitOn(image.date, " ")[1]

\* selected_image["date"].split(" ")[0].replace("-", "/")
ImageDate(image) == Replace(SplitOn(image.date, " ")[1], "-", "/")

\* selected_image["date"].split(" ")[1].split(".")[0]
ImageTime(image) == SplitOn(SplitOn(image.date, " ")[2], ".")[1]

\* image_url of the selected image
SelectedImageUrl(selected_image, image_type_param, api_key) ==
    EpicArchive \o image_type_param \o <<"/">> \o ImageDate(selected_image)
        \o <<"/","p","n","g","/">> \o selected_image.identifier
        \o <<".","p","n","g","?","a","p","i","_","k","e","y","=">> \o api_key

\* img_url of one cell of the timelapse grid
TimelapseImgUrl(img_data, image_type_param, api_key) ==
    EpicArchive \o image_type_param \o <<"/">>
        \o Replace(SplitOn(img_data.date, " ")[1], "-", "/")
        \o <<"/","p","n","g","/">> \o img_data.identifier
        \o <<".","p","n","g","?","a","p","i","_","k","e","y","=">> \o api_key

\* one cell of the timelapse grid: the image shown and its caption
TimelapseCell(img_data, image_type_param, api_key) ==
    [img_url |-> TimelapseImgUrl(img_data, image_type_param, api_key),
     img_time |-> SplitOn(SplitOn(img_data.date, " ")[2], ".")[1]]

\* the grid of the "show all" mode: rows of cells
TimelapseGrid(epic_data, image_type_param, api_key) ==
    LET row_images == GridRows(epic_data)
    IN  [r \in 1..Len(row_images) |->
            [j \in 1..Len(row_images[r]) |->
                TimelapseCell(row_images[r][j], image_type_param, api_key)]]

NoEpicView ==
    [epic_data |-> None, image_index |-> 0, image_url |-> <<>>, image_time |-> <<>>,
     show_timelapse |-> FALSE, rows |-> 0, row_images |-> <<>>, grid |-> <<>>]

\* get_epic_images(date, image_type, api_key) when the service does `up`
get_epic_images(up) == ReturnFetched(up)

EpicRun(epic_date, image_type, api_key, up) ==
    LET f == cache_data(cache.get_epic_images,
                        <<epic_date, ImageTypeParam(image_type), api_key>>,
                        EpicImagesTtl, get_epic_images(up))
        image_type_param == ImageTypeParam(image_type)
    IN  /\ page' = "Earth Imagery (EPIC)"
        /\ input' = [epic_date |-> epic_date, image_type |-> image_type,
                     api_key |-> api_key]
        /\ upstream' = IF f.hit THEN Failed("none") ELSE up
        /\ requests' = IF f.hit THEN <<>>
                       ELSE <<EpicRequest(epic_date, image_type_param, api_key)>>
        /\ cache' = [cache EXCEPT !.get_epic_images = f.store]
        /\ IF f.raised
             THEN /\ status' = "exception"
                  /\ messages' = {}
                  /\ view' = NoEpicView
           ELSE IF ~(TruthyOpt(f.ret) /\ Len(Val(f.ret)) > 0)
             THEN /\ status' = "ok"
                  /\ messages' = f.messages \cup {"no_epic_images_warning"}
                  /\ view' = [NoEpicView EXCEPT !.epic_data = f.ret]
           ELSE LET epic_data == Val(f.ret) IN
                \E image_index \in 0..(Len(epic_data) - 1), show_timelapse \in BOOLEAN :
                  /\ Len(epic_data) <= 1 => (image_index = 0 /\ ~show_timelapse)
                  /\ LET selected_image == epic_data[image_index + 1]
                     IN  /\ status' = "ok"
                         /\ messages' = f.messages \cup {"found_images_success"}
                         /\ view' =
                              [epic_data |-> f.ret,
                               image_index |-> image_index,
                               image_url |-> SelectedImageUrl(selected_image,
                                                image_type_param, api_key),
                               image_time |-> ImageTime(selected_image),
                               show_timelapse |-> show_timelapse,
                               rows |-> IF show_timelapse
                                          THEN (Len(epic_data) + cols - 1) \div cols
                                        ELSE 0,
                               row_images |-> IF show_timelapse
                                                THEN GridRows(epic_data) ELSE <<>>,
                               grid |-> IF show_timelapse
                                          THEN TimelapseGrid(epic_data,
                                                   image_type_param, api_key)
                                        ELSE <<>>]
        /\ UNCHANGED <<json_error_caught, now>>

RenderEpic ==
    /\ page = "none"
    /\ \E epic_date \in {FirstDay}, image_type \in ImageTypes,
       api_key \in ApiKeys, up \in EpicUpstreams :
        EpicRun(epic_date, image_type, api_key, up)

---------------------------------------------------------------------------
(* Near Earth Objects page *)

\* Floats of this page are fixed-point numbers in tenths (0.1 km, 0.1 km/h).

\* float(s) of a decimal numeral with at most one fractional digit, in tenths
FloatOf(s) ==
    LET parts == SplitOn(s, ".")
    IN  10 * IntOf(parts[1])
          + (IF Len(parts) > 1 /\ Len(parts[2]) > 0 THEN DigitValue(parts[2][1]) ELSE 0)

Approach(date, km, kph) ==
    [close_approach_date |-> date,
     miss_distance |-> [kilometers |-> km],
     relative_velocity |-> [kilometers_per_hour |-> kph]]

Neo(id, name, dmin, dmax, hazardous, approaches) ==
    [id |-> id, name |-> name,
     estimated_diameter |->
         [kilometers |-> [estimated_diameter_min |-> dmin, estimated_diameter_max |-> dmax]],
     is_potentially_hazardous_asteroid |-> hazardous,
     close_approach_data |-> approaches]

\* The objects the model's service knows: a small hazardous one, a large one
\* with two approaches in the window, and one listed without any approach.
NeoChoices ==
    { Neo("3542519", "(2010 PK9)", 1, 3, TRUE,
          <<Approach("2024-01-01", <<"4","2","1","3",".","5">>, <<"9","0","0">>)>>),
      Neo("2000433", "433 Eros", 5, 12, FALSE,
          <<Approach("2024-01-01", <<"7","0","0","0">>, <<"1","2","0",".","7">>),
            Approach("2024-01-03", <<"8","0">>, <<"3","0">>)>>),
      Neo("54016", "(2020 AB)", 2, 4, FALSE, <<>>) }

DateKeys == {"2024-01-01", "2024-01-03"}

\* the near_earth_objects dict in insertion order: distinct date keys, each
\* with its array
NearEarthObjectMaps ==
    {m \in SeqsUpTo([date : DateKeys, neos : SeqsUpTo(NeoChoices, MaxNeosPerDate)],
                    Cardinality(DateKeys)) :
        \A i, j \in 1..Len(m) : i # j => m[i].date # m[j].date}

NeoBodies == {[near_earth_objects |-> m] : m \in NearEarthObjectMaps}

NeoUpstreams == {Failed(k) : k \in FailureKinds} \cup {Answered(b) : b \in NeoBodies}

\* the check left out
UnclampedEndDate(start_date, end_date) == end_date

\* if date_difference > 7: end_date = start_date + timedelta(days=7)
ClampedEndDate(start_date, end_date) ==
    IF DaysBetween(end_date, start_date) > 7 THEN PlusDays(start_date, 7) ELSE end_date

\* get_neo_data(start_date, end_date, api_key): the request it sends
NeoRequest(start_date, end_date, api_key) ==
    [endpoint |-> "neo-feed",
     params |-> [start_date |-> Strftime(start_date), end_date |-> Strftime(end_date),
                 api_key |-> api_key]]

\* neo_info of one object listed under `date`
NeoInfo(neo, date) ==
    [id |-> neo.id,
     name |-> neo.name,
     date |-> date,
     diameter_min_km |-> neo.estimated_diameter.kilometers.estimated_diameter_min,
     diameter_max_km |-> neo.estimated_diameter.kilometers.estimated_diameter_max,
     is_hazardous |-> neo.is_potentially_hazardous_asteroid,
     close_approach_date |-> neo.close_approach_data[1].close_approach_date,
     miss_distance_km |-> FloatOf(neo.close_approach_data[1].miss_distance.kilometers),
     relative_velocity_kph |->
         FloatOf(neo.close_approach_data[1].relative_velocity.kilometers_per_hour)]

\* the inner loop: for neo in neos: neo_data.append(neo_info)
NeosOfDate(date, neos) == [j \in 1..Len(neos) |-> NeoInfo(neos[j], date)]

\* the flattening with a `break` after the first object of each date
RECURSIVE FlattenFirstOfEachDate(_)
FlattenFirstOfEachDate(near_earth_objects) ==
    IF near_earth_objects = <<>> THEN <<>>
    ELSE NeosOfDate(Head(near_earth_objects).date,
                    Slice(Head(near_earth_objects).neos, 0, 1))
            \o FlattenFirstOfEachDate(Tail(near_earth_objects))

\* the outer loop: for date, neos in data["near_earth_objects"].items()
RECURSIVE FlattenNeos(_)
FlattenNeos(near_earth_objects) ==
    IF near_earth_objects = <<>> THEN <<>>
    ELSE NeosOfDate(Head(near_earth_objects).date, Head(near_earth_objects).neos)
            \o FlattenNeos(Tail(near_earth_objects))

\* neo["close_approach_data"][0] raises IndexError for some listed object
FlattenRaises(near_earth_objects) ==
    \E i \in 1..Len(near_earth_objects) :
        \E j \in 1..Len(near_earth_objects[i].neos) :
            near_earth_objects[i].neos[j].close_approach_data = <<>>

NeoColumns ==
    {"id", "name", "date", "diameter_min_km", "diameter_max_km", "is_hazardous",
     "close_approach_date", "miss_distance_km", "relative_velocity_kph"}

\* pd.DataFrame(neo_data): a list of dicts gives their keys as columns, an
\* empty list a frame without columns
DataFrame(neo_data) ==
    [columns |-> IF neo_data = <<>> THEN {} ELSE NeoColumns, rows |-> neo_data]

\* df[column] raises KeyError
KeyError(df, column) == column \notin df.columns

RECURSIVE HazardousRows(_)
HazardousRows(rows) ==
    IF rows = <<>> THEN <<>>
    ELSE (IF Head(rows).is_hazardous THEN <<Head(rows)>> ELSE <<>>)
            \o HazardousRows(Tail(rows))

\* df = df[df["is_hazardous"] == True]
HazardousOnly(df) == [df EXCEPT !.rows = HazardousRows(df.rows)]

\* df["diameter_max_km"].max() of a frame with rows
RECURSIVE MaxDiameter(_)
MaxDiameter(rows) ==
    IF Len(rows) = 1 THEN Head(rows).diameter_max_km
    ELSE LET rest == MaxDiameter(Tail(rows))
         IN  IF Head(rows).diameter_max_km > rest THEN Head(rows).diameter_max_km ELSE rest

RECURSIVE RowsInSizeRange(_, _, _)
RowsInSizeRange(rows, min_size, max_size) ==
    IF rows = <<>> THEN <<>>
    ELSE (IF Head(rows).diameter_max_km >= min_size /\ Head(rows).diameter_min_km <= max_size
            THEN <<Head(rows)>> ELSE <<>>)
            \o RowsInSizeRange(Tail(rows), min_size, max_size)

\* df = df[(df["diameter_max_km"] >= min_size) & (df["diameter_min_km"] <= max_size)]
SizeFilter(df, min_size, max_size) ==
    [df EXCEPT !.rows = RowsInSizeRange(df.rows, min_size, max_size)]

\* df["avg_diameter_km"] = (df["diameter_min_km"] + df["diameter_max_km"]) / 2,
\* kept in twentieths so that the half is exact
WithAvgDiameter(df) ==
    [columns |-> df.columns \cup {"avg_diameter_km"},
     rows |-> [k \in 1..Len(df.rows) |->
                 [c \in NeoColumns \cup {"avg_diameter_km"} |->
                     IF c = "avg_diameter_km"
                         THEN df.rows[k].diameter_min_km + df.rows[k].diameter_max_km
                     ELSE df.rows[k][c]]]]

\* the (min_size, max_size) pairs the user can leave the slider at, the first
\* being its default: min_value = 0.0, max_value = max + 0.5
SliderChoices(df) ==
    LET top == MaxDiameter(df.rows) + 5
    IN  {<<0, top>>, <<4, 8>>}

EmptyFrame == [columns |-> {}, rows |-> <<>>]

NoNeoView == [data |-> None, neo_data |-> <<>>, df |-> EmptyFrame, failed_at |-> "fetch"]

\* The steps after the fetch returned `data`: the set of possible outcomes
\* [status, view, extra messages] of lines 154-244.
NeoOutcomes(data, show_hazardous_only) ==
    IF ~TruthyOpt(data)
        THEN {[status |-> "ok", view |-> [NoNeoView EXCEPT !.data = data, !.failed_at = ""]]}
    ELSE IF FlattenRaises(Val(data).near_earth_objects)
        THEN {[status |-> "exception",
               view |-> [NoNeoView EXCEPT !.data = data, !.failed_at = "flatten"]]}
    ELSE
    LET neo_data == FlattenNeos(Val(data).near_earth_objects)
        df0 == DataFrame(neo_data)
        base == [data |-> data, neo_data |-> neo_data, df |-> df0, failed_at |-> ""]
        df1 == IF show_hazardous_only THEN HazardousOnly(df0) ELSE df0
    IN  IF show_hazardous_only /\ KeyError(df0, "is_hazardous")
            THEN {[status |-> "exception",
                   view |-> [base EXCEPT !.failed_at = "hazardous_filter"]]}
        ELSE IF KeyError(df1, "diameter_max_km")
            THEN {[status |-> "exception", view |-> [base EXCEPT !.failed_at = "slider"]]}
        ELSE IF df1.rows = <<>>
            \* max() of an empty column is NaN: the slider is given max_value = NaN,
            \* which it either rejects or returns unchanged; no row passes either way
            THEN {[status |-> "exception",
                   view |-> [base EXCEPT !.df = df1, !.failed_at = "slider"]],
                  [status |-> "ok", view |-> [base EXCEPT !.df = WithAvgDiameter(df1)]]}
        ELSE {[status |-> "ok",
               view |-> [base EXCEPT !.df = WithAvgDiameter(SizeFilter(df1, c[1], c[2]))]] :
                  c \in SliderChoices(df1)}

\* get_neo_data(start_date, end_date, api_key) when the service does `up`
get_neo_data(up) == ReturnFetched(up)

NeoRun(start_date, end_date, api_key, up, show_hazardous_only) ==
    LET date_difference == DaysBetween(end_date, start_date)
        f == cache_data(cache.get_neo_data,
                        <<start_date, ClampedEndDate(start_date, end_date), api_key>>,
                        NeoDataTtl, get_neo_data(up))
    IN  /\ page' = "Near Earth Objects"
        /\ upstream' = IF f.hit THEN Failed("none") ELSE up
        /\ requests' = IF f.hit THEN <<>>
                       ELSE <<NeoRequest(start_date,
                                         ClampedEndDate(start_date, end_date),
                                         api_key)>>
        /\ cache' = [cache EXCEPT !.get_neo_data = f.store]
        /\ IF f.raised
             THEN /\ status' = "exception"
                  /\ messages' = {}
                  /\ view' = NoNeoView
                  /\ input' = [start_date |-> start_date, end_date |-> end_date,
                               api_key |-> api_key, show_hazardous_only |-> FALSE]
           ELSE \E o \in NeoOutcomes(f.ret, show_hazardous_only) :
                  /\ status' = o.status
                  /\ view' = o.view
                  /\ messages' = f.messages
                        \cup (IF date_difference > 7 THEN {"max_range_warning"} ELSE {})
                  /\ input' = [start_date |-> start_date, end_date |-> end_date,
                               api_key |-> api_key,
                               show_hazardous_only |->
                                   TruthyOpt(f.ret) /\ show_hazardous_only]
        /\ UNCHANGED <<json_error_caught, now>>

RenderNeo ==
    /\ page = "none"
    /\ \E start_date \in {PlusDays(FirstDay, 1)}, end_date \in DateChoices,
       api_key \in {<<"D","E","M","O","_","K","E","Y">>},
       up \in NeoUpstreams, show_hazardous_only \in BOOLEAN :
        NeoRun(start_date, end_date, api_key, up, show_hazardous_only)

---------------------------------------------------------------------------
(* Mars Weather page *)

\* Sensor readings are fixed-point numbers in ten-thousandths of their unit.

KeySolKeys == <<"s","o","l","_","k","e","y","s">>
KeyValidityChecks == <<"v","a","l","i","d","i","t","y","_","c","h","e","c","k","s">>

Sol259 == <<"2","5","9">>
Sol260 == <<"2","6","0">>

Sensors == {"AT", "PRE", "HWS"}
Aggregates == {"av", "mn", "mx"}

\* the block of sol 259 in the sample data (its WD entry, which the page
\* never reads, is left out)
SampleBlock259 ==
    [AT |-> [av |-> -770640, ct |-> 152488, mn |-> -994290, mx |-> -136680],
     HWS |-> [av |-> 45630, ct |-> 74455, mn |-> 1560, mx |-> 176170],
     PRE |-> [av |-> 7610060, ct |-> 144432, mn |-> 7421498, mx |-> 7803891],
     First_UTC |-> "2019-08-19T08:03:59Z",
     Last_UTC |-> "2019-08-20T08:43:34Z",
     Season |-> "winter"]

\* the dict get_mars_weather returns from its except branch
SampleData ==
    [k \in {KeySolKeys, Sol259, KeyValidityChecks} |->
        IF k = KeySolKeys
            THEN <<Sol259, Sol260, <<"2","6","1">>, <<"2","6","2">>, <<"2","6","3">>,
                   <<"2","6","4">>, <<"2","6","5">>>>
        ELSE IF k = Sol259 THEN SampleBlock259
        ELSE [c \in {Sol259} |-> [AT |-> "Pass", HWS |-> "Pass", PRE |-> "Pass", WD |-> "Pass"]]]

\* The readings of the model's service; the average temperature is 0.
Reading(sensor, agg) ==
    CASE sensor = "AT" -> (CASE agg = "av" -> 0 [] agg = "mn" -> -900000 [] agg = "mx" -> 150000)
      [] sensor = "PRE" -> (CASE agg = "av" -> 7500000 [] agg = "mn" -> 7400000 [] agg = "mx" -> 7600000)
      [] sensor = "HWS" -> (CASE agg = "av" -> 50000 [] agg = "mn" -> 0 [] agg = "mx" -> 170000)

\* a per-sol block holding the given sensor groups, each with the given
\* aggregates, with or without First_UTC and Season
SolBlock(sensors, aggs, with_meta) ==
    [k \in sensors \cup (IF with_meta THEN {"First_UTC", "Season"} ELSE {}) |->
        IF k = "First_UTC" THEN "2019-08-20T08:43:34Z"
        ELSE IF k = "Season" THEN "winter"
        ELSE [a \in aggs |-> Reading(k, a)]]

SolBlocks ==
    {SolBlock(sensors, aggs, with_meta) :
        sensors \in SUBSET Sensors, aggs \in SUBSET Aggregates, with_meta \in BOOLEAN}

FullBlock == SolBlock(Sensors, Aggregates, TRUE)

\* the sol identifiers a response may list, one of them zero-padded
SolIds == {Sol259, Sol260, <<"0","2","6","1">>}

\* the identifiers a response may carry a block for
BlockIds == {Sol259, Sol260}

\* a response body: sol_keys, validity_checks, and a block for the sols of
\* `present`, complete except for the one of sol `odd`
WeatherBody(sol_keys, present, odd, block) ==
    [k \in {KeySolKeys, KeyValidityChecks} \cup present |->
        IF k = KeySolKeys THEN sol_keys
        ELSE IF k = KeyValidityChecks THEN EmptyDict
        ELSE IF k = odd THEN block
        ELSE FullBlock]

WeatherBodies ==
    {WeatherBody(sol_keys, present, odd, block) :
        sol_keys \in SeqsUpTo(SolIds, MaxSolKeys), present \in SUBSET BlockIds,
        odd \in BlockIds, block \in SolBlocks}
    \cup {EmptyDict, [k \in {KeyValidityChecks} |-> EmptyDict]}

WeatherUpstreams == {Failed(k) : k \in FailureKinds} \cup {Answered(b) : b \in WeatherBodies}

WeatherRequest(api_key) ==
    [endpoint |-> "insight_weather",
     params |-> [api_key |-> api_key, feedtype |-> "json", ver |-> "1.0"]]

\* get_mars_weather(api_key) when the service does `up`: the value returned and
\* the elements shown.  The except branch runs only when an exception leaves
\* fetch_nasa_data.
get_mars_weather(up) ==
    LET f == fetch_nasa_data(up)
    IN  IF f.raised
            THEN [ret |-> Some(SampleData), messages |-> {"archived_sample_warning"},
                  raised |-> FALSE]
        ELSE [ret |-> f.ret, messages |-> FetchMessages(f), raised |-> FALSE]

\* temp_data.get("av"): the value, or None
AggregateOrZero(sensor_data, agg) ==
    IF agg \in DOMAIN sensor_data THEN Some(sensor_data[agg]) ELSE Some(0)

AggregateOf(sensor_data, agg) ==
    IF agg \in DOMAIN sensor_data THEN Some(sensor_data[agg]) ELSE None

\* the row built for one sol
WeatherRow(sol, sol_data) ==
    LET temp_data == DictGet(sol_data, "AT", EmptyDict)
        pressure_data == DictGet(sol_data, "PRE", EmptyDict)
        wind_data == DictGet(sol_data, "HWS", EmptyDict)
    IN  [Sol |-> IntOf(sol),
         Earth_Date |-> DictGet(sol_data, "First_UTC", "Unknown"),
         Season |-> DictGet(sol_data, "Season", "Unknown"),
         Avg_Temp |-> AggregateOf(temp_data, "av"),
         Min_Temp |-> AggregateOf(temp_data, "mn"),
         Max_Temp |-> AggregateOf(temp_data, "mx"),
         Avg_Pressure |-> AggregateOf(pressure_data, "av"),
         Avg_Wind_Speed |-> AggregateOf(wind_data, "av"),
         Max_Wind_Speed |-> AggregateOf(wind_data, "mx")]

\* a row for a listed sol whether or not the payload has its block
RowsOfSolUnchecked(weather_data, sol) ==
    <<WeatherRow(sol, DictGet(weather_data, sol, EmptyDict))>>

\* the body of the loop: if sol in weather_data: ... concat one row
RowsOfSol(weather_data, sol) ==
    IF sol \in DOMAIN weather_data THEN <<WeatherRow(sol, weather_data[sol])>> ELSE <<>>

\* for sol in sols
RECURSIVE WeatherRowsFor(_, _)
WeatherRowsFor(weather_data, sols) ==
    IF sols = <<>> THEN <<>>
    ELSE RowsOfSol(weather_data, Head(sols)) \o WeatherRowsFor(weather_data, Tail(sols))

\* weather_df after the loop
WeatherRows(weather_data) == WeatherRowsFor(weather_data, weather_data[KeySolKeys])

\* int(sol) raises ValueError for a listed sol that has a block
IntRaises(weather_data) ==
    \E i \in 1..Len(weather_data[KeySolKeys]) :
        /\ weather_data[KeySolKeys][i] \in DOMAIN weather_data
        /\ ~IntParses(weather_data[KeySolKeys][i])

\* weather_df["Earth Date"] = pd.to_datetime(weather_df["Earth Date"])... raises:
\* KeyError on the column-less frame of an empty loop, a parse error on "Unknown"
FormatDatesRaises(weather_df) ==
    \/ weather_df = <<>>
    \/ \E i \in 1..Len(weather_df) : weather_df[i].Earth_Date = "Unknown"

NoWeatherView == [weather_data |-> None, weather_df |-> <<>>, failed_at |-> ""]

WeatherRun(api_key, up) ==
    LET got == cache_data(cache.get_mars_weather, <<api_key>>,
                          MarsWeatherTtl, get_mars_weather(up))
        weather_data == got.ret
    IN  /\ page' = "Mars Weather"
        /\ input' = [api_key |-> api_key]
        /\ upstream' = IF got.hit THEN Failed("none") ELSE up
        /\ requests' = IF got.hit THEN <<>> ELSE <<WeatherRequest(api_key)>>
        /\ cache' = [cache EXCEPT !.get_mars_weather = got.store]
        /\ IF ~(TruthyOpt(weather_data) /\ KeySolKeys \in DOMAIN Val(weather_data))
             THEN /\ status' = "ok"
                  /\ messages' = got.messages \cup {"unable_error"}
                  /\ view' = [NoWeatherView EXCEPT !.weather_data = weather_data]
           ELSE IF IntRaises(Val(weather_data))
             THEN /\ status' = "exception"
                  /\ messages' = got.messages
                  /\ view' = [NoWeatherView EXCEPT !.weather_data = weather_data,
                                                   !.failed_at = "int"]
           ELSE LET weather_df == WeatherRows(Val(weather_data))
                IN  /\ status' = IF FormatDatesRaises(weather_df)
                                   THEN "exception" ELSE "ok"
                    /\ messages' = got.messages
                    /\ view' = [weather_data |-> weather_data,
                                weather_df |-> weather_df,
                                failed_at |-> IF FormatDatesRaises(weather_df)
                                                THEN "format_dates" ELSE ""]
        /\ UNCHANGED <<json_error_caught, now>>

RenderWeather ==
    /\ page = "none"
    /\ \E api_key \in ApiKeys, up \in WeatherUpstreams :
        WeatherRun(api_key, up)

---------------------------------------------------------------------------
Init ==
    /\ json_error_caught \in BOOLEAN
    /\ page = "none"
    /\ upstream = Failed("none")
    /\ requests = <<>>
    /\ messages = {}
    /\ status = "ok"
    /\ input = <<>>
    /\ view = <<>>
    /\ cache = NoCache
    /\ now = 0

\* the clock readings at which the model lets a run start
Instants == {0, RoverPhotosTtl \div 2, RoverPhotosTtl, MarsWeatherTtl}

\* A widget interaction some time after the run: Streamlit drops the rendered
\* elements and re-runs the script; the cached entries stay.
Rerun ==
    /\ page # "none"
    /\ page' = "none"
    /\ upstream' = Failed("none")
    /\ requests' = <<>>
    /\ messages' = {}
    /\ status' = "ok"
    /\ input' = <<>>
    /\ view' = <<>>
    /\ \E t \in Instants : t > now /\ now' = t
    /\ UNCHANGED <<json_error_caught, cache>>

\* The server process is started again and a new session opens the app: the
\* rendered elements and the in-memory cache are gone.
Restart ==
    /\ page # "none"
    /\ page' = "none"
    /\ upstream' = Failed("none")
    /\ requests' = <<>>
    /\ messages' = {}
    /\ status' = "ok"
    /\ input' = <<>>
    /\ view' = <<>>
    /\ cache' = NoCache
    /\ now' = 0
    /\ UNCHANGED json_error_caught

Next ==
    \/ RenderRoverPhotos
    \/ RenderEpic
    \/ RenderNeo
    \/ RenderWeather
    \/ Restart

\* the whole application, each run on an empty cache
Spec == Init /\ [][Next]_vars

\* The pages share no state, so each is also checked on its own.
NextRover == RenderRoverPhotos \/ Restart
SpecRover == Init /\ [][NextRover]_vars

NextEpic == RenderEpic \/ Restart
SpecEpic == Init /\ [][NextEpic]_vars

NextWeather == RenderWeather \/ Restart
SpecWeather == Init /\ [][NextWeather]_vars

NextNeo == RenderNeo \/ Restart
SpecNeo == Init /\ [][NextNeo]_vars

\* Runs that follow one another in one server process, over few widget values
\* and service outcomes, while time passes between them.

DemoKey == <<"D","E","M","O","_","K","E","Y">>

FewRoverUpstreams ==
    {Failed("unreachable"), Failed("malformed"), Answered(PhotosBody(<<"FHAZ">>))}

FewEpicUpstreams ==
    {Failed("http_error"),
     Answered(<<EpicDescriptor(CHOOSE s \in EpicStamps : s.frac # <<>>)>>)}

FewNeoUpstreams ==
    {Failed("unreachable"),
     Answered([near_earth_objects |->
                  <<[date |-> "2024-01-01",
                     neos |-> <<CHOOSE n \in NeoChoices : n.name = "433 Eros">>]>>])}

FewWeatherUpstreams ==
    {Failed("unreachable"), Failed("malformed"),
     Answered(WeatherBody(<<Sol259>>, {Sol259}, Sol259, FullBlock))}

NextCache ==
    \/ /\ page = "none"
       /\ \E rover \in {"Curiosity", "Opportunity"}, up \in FewRoverUpstreams :
            RoverPhotosRun(rover, FirstDay, DemoKey, up)
    \/ /\ page = "none"
       /\ \E up \in FewEpicUpstreams : EpicRun(FirstDay, "Natural Color", DemoKey, up)
    \/ /\ page = "none"
       /\ \E up \in FewNeoUpstreams :
            NeoRun(PlusDays(FirstDay, 1), PlusDays(FirstDay, 1), DemoKey, up, FALSE)
    \/ /\ page = "none"
       /\ \E up \in FewWeatherUpstreams : WeatherRun(DemoKey, up)
    \/ Rerun

SpecCache == Init /\ [][NextCache]_vars

---------------------------------------------------------------------------
(* Properties of the Mars Rover Photos and EPIC pages *)

OnRover == page = "Mars Rover Photos"
OnEpic == page = "Earth Imagery (EPIC)"

\* the URL the archive serves image I of day y-m-d under, for type segment T
EpicArchiveUrl(T, y, m, d, I, key) ==
    EpicArchive \o T \o <<"/">> \o y \o <<"/">> \o m \o <<"/">> \o d
        \o <<"/","p","n","g","/">> \o I
        \o <<".","p","n","g","?","a","p","i","_","k","e","y","=">> \o key

TypeSegment ==
    IF input.image_type = "Natural Color" THEN <<"n","a","t","u","r","a","l">>
    ELSE <<"e","n","h","a","n","c","e","d">>

\* the timelapse cell of the k-th descriptor (1-based)
CellOf(k) == view.grid[((k - 1) \div 3) + 1][((k - 1) % 3) + 1]

\* C5: for every descriptor with date 'YYYY-MM-DD HH:MM:SS[.fff]' and identifier I,
\* the URL of the selected image and the URL of its cell in the "show all" grid
\* are both https://api.nasa.gov/EPIC/archive/T/YYYY/MM/DD/png/I.png?api_key=<key>,
\* the date segments being those of the descriptor unchanged.
C5_EpicUrlExact ==
    (OnEpic /\ status = "ok" /\ TruthyOpt(view.epic_data)) =>
        LET epic_data == Val(view.epic_data) IN
        /\ \A s \in EpicStamps :
               epic_data[view.image_index + 1] = EpicDescriptor(s) =>
                   view.image_url =
                       EpicArchiveUrl(TypeSegment, s.y, s.m, s.d, s.identifier, input.api_key)
        /\ view.show_timelapse =>
               \A k \in 1..Len(epic_data) : \A s \in EpicStamps :
                   epic_data[k] = EpicDescriptor(s) =>
                       CellOf(k).img_url =
                           EpicArchiveUrl(TypeSegment, s.y, s.m, s.d, s.identifier,
                                          input.api_key)

\* an enhanced-colour run whose selected image is not the first, carries a
\* fractional second, and is also shown in the grid
C5_Witness ==
    /\ OnEpic /\ status = "ok" /\ view.show_timelapse
    /\ input.image_type = "Enhanced Color"
    /\ view.image_index = 2
    /\ Len(Val(view.epic_data)) = 4
    /\ \E s \in EpicStamps :
          /\ s.frac # <<>>
          /\ Val(view.epic_data)[3] = EpicDescriptor(s)
          /\ view.image_url = CellOf(3).img_url

RECURSIVE ConcatRows(_)
ConcatRows(rows) == IF rows = <<>> THEN <<>> ELSE Head(rows) \o ConcatRows(Tail(rows))

\* rows is seq cut into rows of 3
GroupedInThrees(seq, rows) ==
    /\ Len(rows) * 3 >= Len(seq) /\ (Len(rows) - 1) * 3 < Len(seq) \* ceil(L/3) rows
    /\ \A r \in 1..Len(rows) : Len(rows[r]) >= 1 /\ Len(rows[r]) <= 3
    /\ \A r \in 1..(Len(rows) - 1) : Len(rows[r]) = 3
    /\ ConcatRows(rows) = seq
    /\ (Len(seq) = 0 => rows = <<>>)

\* C6: the rover photo grid and the EPIC "show all" grid cut their sequence of
\* length L into exactly ceil(L/3) rows, each non-empty and of at most 3
\* elements, only the last possibly shorter, whose concatenation is the
\* sequence; no row for L = 0.
C6_RowsOfThree ==
    /\ (OnRover /\ status = "ok") => GroupedInThrees(view.photos, view.grid)
    /\ (OnEpic /\ status = "ok" /\ view.show_timelapse) =>
          /\ GroupedInThrees(Val(view.epic_data), view.row_images)
          /\ Len(view.grid) = Len(view.row_images)
          /\ \A r \in 1..Len(view.grid) : Len(view.grid[r]) = Len(view.row_images[r])

\* four photos shown unfiltered: one full row and a partial one
C6_Witness ==
    /\ OnRover /\ status = "ok"
    /\ Len(view.photos) = 4
    /\ Len(view.grid) = 2 /\ Len(view.grid[2]) = 1

\* the positions of fetched whose photo is of camera c
PositionsOf(fetched, c) == {i \in 1..Len(fetched) : fetched[i].camera.name = c}

\* the k-th smallest element of a set of positions
KthOf(P, k) == CHOOSE i \in P : Cardinality({j \in P : j <= i}) = k

\* C7: for a non-empty photo sequence, camera "All" leaves it unchanged, a
\* camera name c yields exactly the photos of camera c in their original order,
\* and selecting again on the result changes nothing.
C7_CameraFilter ==
    (OnRover /\ status = "ok" /\ view.fetched # <<>>) =>
        LET c == view.selected_camera
            P == PositionsOf(view.fetched, c)
        IN  /\ c = "All" => view.photos = view.fetched
            /\ c # "All" =>
                  /\ Len(view.photos) = Cardinality(P)
                  /\ \A k \in 1..Len(view.photos) : view.photos[k] = view.fetched[KthOf(P, k)]
            /\ CameraFilter(view.photos, c) = view.photos

\* a camera is selected that keeps two of the photos and drops another
C7_Witness ==
    /\ OnRover /\ status = "ok"
    /\ view.selected_camera = "NAVCAM"
    /\ Len(view.photos) = 2
    /\ Len(view.fetched) = 4
    /\ view.fetched[1].camera.name = "FHAZ"

\* a successful fetch with zero photos
FetchedNoPhotos == upstream.kind = "ok" /\ DictGet(upstream.body, "photos", <<>>) = <<>>

\* C9: the "No photos found" message is shown if and only if the fetch
\* succeeded with zero photos, and then no error is shown.
C9_EmptyStateOnlyOnSuccess ==
    OnRover =>
        /\ ("no_photos_info" \in messages) <=> FetchedNoPhotos
        /\ FetchedNoPhotos => "fetch_error" \notin messages

---------------------------------------------------------------------------
(* Properties of the Near Earth Objects page *)

OnNeo == page = "Near Earth Objects"

\* the number of object entries under the first n date keys
RECURSIVE EntriesBefore(_, _)
EntriesBefore(near_earth_objects, n) ==
    IF n = 0 THEN 0
    ELSE EntriesBefore(near_earth_objects, n - 1) + Len(near_earth_objects[n].neos)

\* C2: a feed whose date map holds N object entries, each with at least one
\* close approach, is flattened into exactly N records, the j-th object of the
\* e-th date key becoming the record at position (entries before e) + j, with
\* the key as its date.
C2_OneRecordPerEntry ==
    (OnNeo /\ upstream.kind = "ok") =>
        LET E == upstream.body.near_earth_objects
            R == view.neo_data
        IN  (\A e \in 1..Len(E) : \A j \in 1..Len(E[e].neos) :
                 Len(E[e].neos[j].close_approach_data) >= 1) =>
              /\ Len(R) = EntriesBefore(E, Len(E))
              /\ \A e \in 1..Len(E) : \A j \in 1..Len(E[e].neos) :
                   LET r == R[EntriesBefore(E, e - 1) + j]
                   IN  /\ r.date = E[e].date
                       /\ r.id = E[e].neos[j].id
                       /\ r.name = E[e].neos[j].name

\* two objects under the first date key and one under the second: three records
C2_Witness ==
    /\ OnNeo /\ status = "ok" /\ upstream.kind = "ok"
    /\ Len(upstream.body.near_earth_objects) = 2
    /\ Len(upstream.body.near_earth_objects[1].neos) = 2
    /\ Len(upstream.body.near_earth_objects[2].neos) = 1
    /\ upstream.body.near_earth_objects[1].date = "2024-01-03"
    /\ Len(view.neo_data) = 3
    /\ view.neo_data[3].date = "2024-01-01"

\* datetime.date.fromisoformat of a request parameter
ParseIsoDate(s) ==
    LET parts == SplitOn(s, "-")
    IN  [year |-> IntOf(parts[1]), month |-> IntOf(parts[2]), day |-> IntOf(parts[3])]

\* C8: the feed request carries the chosen start date; its end date is the
\* chosen one when end - start is at most 7 days and is exactly start + 7 days
\* otherwise, so the requested range never exceeds 7 days.
C8_RangeClamped ==
    OnNeo =>
        /\ Len(requests) = 1
        /\ LET sent == requests[1].params
               chosen == DaysBetween(input.end_date, input.start_date)
           IN  /\ ParseIsoDate(sent.start_date) = input.start_date
               /\ chosen <= 7 => ParseIsoDate(sent.end_date) = input.end_date
               /\ chosen > 7 =>
                     ToOrdinal(ParseIsoDate(sent.end_date)) = ToOrdinal(input.start_date) + 7
               /\ ToOrdinal(ParseIsoDate(sent.end_date))
                     - ToOrdinal(ParseIsoDate(sent.start_date)) <= 7

\* a range of 8 days across the turn of the year, clamped in the request
C8_Witness ==
    /\ OnNeo
    /\ DaysBetween(input.end_date, input.start_date) = 8
    /\ input.start_date.year < input.end_date.year
    /\ "max_range_warning" \in messages
    /\ requests[1].params.end_date # Strftime(input.end_date)

\* C10: a successfully fetched feed without objects gives an empty record
\* sequence and the run completes normally.
C10_EmptyFeedRenders ==
    (/\ OnNeo /\ upstream.kind = "ok"
     /\ EntriesBefore(upstream.body.near_earth_objects,
                      Len(upstream.body.near_earth_objects)) = 0) =>
        /\ view.neo_data = <<>>
        /\ status = "ok"

---------------------------------------------------------------------------
(* Properties of the Mars Weather page *)

OnWeather == page = "Mars Weather"

\* C1: whenever the weather fetch fails (service unreachable, HTTP error
\* status or malformed body) get_mars_weather returns the sample data with a
\* visible warning, and the page shows weather records instead of the
\* "Unable to retrieve Mars weather data" error.
C1_SampleDataOnFetchFailure ==
    (OnWeather /\ upstream.kind \in FailureKinds) =>
        /\ view.weather_data = Some(SampleData)
        /\ "archived_sample_warning" \in messages
        /\ "unable_error" \notin messages
        /\ Len(view.weather_df) >= 1

\* the page processed a payload carrying sol_keys
WeatherProcessed ==
    /\ OnWeather
    /\ TruthyOpt(view.weather_data)
    /\ KeySolKeys \in DOMAIN Val(view.weather_data)
    /\ view.failed_at # "int"

\* the positions of sol_keys whose sol has a data block in the payload
ListedWithBlock(weather_data) ==
    {i \in 1..Len(weather_data[KeySolKeys]) :
        \E k \in DOMAIN weather_data : k = weather_data[KeySolKeys][i]}

\* the decimal value of a string of digits
DecimalValue(digits) ==
    LET n == Len(digits)
        RECURSIVE Power10(_)
        Power10(e) == IF e = 0 THEN 1 ELSE 10 * Power10(e - 1)
        RECURSIVE Sum(_)
        Sum(k) == IF k = 0 THEN 0
                  ELSE Sum(k - 1) + DigitValue(digits[k]) * Power10(n - k)
    IN  Sum(n)

\* C3: a sol listed in sol_keys without a data block gives no record, and
\* every listed sol with a data block gives exactly one record, in the order of
\* sol_keys, with Sol = int(identifier); so there are at most len(sol_keys)
\* records.
C3_RecordsOnlyForPresentSols ==
    WeatherProcessed =>
        LET weather_data == Val(view.weather_data)
            P == ListedWithBlock(weather_data)
        IN  /\ Len(view.weather_df) = Cardinality(P)
            /\ Len(view.weather_df) <= Len(weather_data[KeySolKeys])
            /\ \A k \in 1..Len(view.weather_df) :
                   view.weather_df[k].Sol =
                       DecimalValue(weather_data[KeySolKeys][KthOf(P, k)])

\* sol_keys lists a sol without a block before one with a block
C3_Witness ==
    /\ WeatherProcessed /\ upstream.kind = "ok"
    /\ Val(view.weather_data)[KeySolKeys] = << <<"0","2","6","1">>, Sol260 >>
    /\ Sol259 \in DOMAIN Val(view.weather_data)
    /\ Len(view.weather_df) = 1
    /\ view.weather_df[1].Sol = 260

\* what the claim requires of a row's field for sensor group and aggregate
ExpectedField(sol_data, sensor, agg) ==
    IF sensor \in DOMAIN sol_data /\ agg \in DOMAIN sol_data[sensor]
        THEN Some(sol_data[sensor][agg])
    ELSE None

\* C4: in the record of a sol that has a data block, the field of a missing
\* sensor group or missing aggregate is None, never zero, a present aggregate
\* is its value, and the record is emitted all the same.
C4_MissingReadingIsNone ==
    WeatherProcessed =>
        LET weather_data == Val(view.weather_data)
            P == ListedWithBlock(weather_data)
        IN  /\ Len(view.weather_df) = Cardinality(P)
            /\ \A k \in 1..Len(view.weather_df) :
                   LET sol_data == weather_data[weather_data[KeySolKeys][KthOf(P, k)]]
                       row == view.weather_df[k]
                   IN  /\ row.Avg_Temp = ExpectedField(sol_data, "AT", "av")
                       /\ row.Min_Temp = ExpectedField(sol_data, "AT", "mn")
                       /\ row.Max_Temp = ExpectedField(sol_data, "AT", "mx")
                       /\ row.Avg_Pressure = ExpectedField(sol_data, "PRE", "av")
                       /\ row.Avg_Wind_Speed = ExpectedField(sol_data, "HWS", "av")
                       /\ row.Max_Wind_Speed = ExpectedField(sol_data, "HWS", "mx")

\* a rendered sol without a wind group and without the "mx" aggregates, next
\* to a complete one; its average temperature is a genuine 0
C4_Witness ==
    /\ WeatherProcessed /\ status = "ok"
    /\ Len(view.weather_df) = 2
    /\ Sol259 \in DOMAIN Val(view.weather_data)
    /\ "HWS" \notin DOMAIN Val(view.weather_data)[Sol259]
    /\ "AT" \in DOMAIN Val(view.weather_data)[Sol259]
    /\ DOMAIN Val(view.weather_data)[Sol259]["AT"] = {"av", "mn"}
    /\ view.weather_df[1].Sol = 259
    /\ view.weather_df[1].Avg_Wind_Speed = None
    /\ view.weather_df[1].Max_Temp = None
    /\ view.weather_df[1].Avg_Temp = Some(0)
    /\ view.weather_df[2].Max_Wind_Speed # None

---------------------------------------------------------------------------
(* Properties of the fetch boundary *)

\* the GET of the run failed on the network or with an HTTP error status
NetworkOrHttpFailure == page # "none" /\ upstream.kind \in {"unreachable", "http_error"}

---------------------------------------------------------------------------
(* Properties of the cached fetch functions *)

\* the decorated function a run of page p calls with the widget values `in`,
\* its arguments and its ttl
CachedCall(p, in) ==
    CASE p = "Mars Rover Photos" ->
            [fn |-> "get_rover_photos",
             key |-> <<Lower(in.rover), in.earth_date, in.api_key>>,
             ttl |-> RoverPhotosTtl]
      [] p = "Near Earth Objects" ->
            [fn |-> "get_neo_data",
             key |-> <<in.start_date, ClampedEndDate(in.start_date, in.end_date),
                       in.api_key>>,
             ttl |-> NeoDataTtl]
      [] p = "Mars Weather" ->
            [fn |-> "get_mars_weather", key |-> <<in.api_key>>, ttl |-> MarsWeatherTtl]
      [] p = "Earth Imagery (EPIC)" ->
            [fn |-> "get_epic_images",
             key |-> <<in.epic_date, ImageTypeParam(in.image_type), in.api_key>>,
             ttl |-> EpicImagesTtl]

\* the value the page of a run got back from its call
ReturnedTo(p, v) ==
    CASE p = "Mars Rover Photos" -> v.data
      [] p = "Near Earth Objects" -> v.data
      [] p = "Mars Weather" -> v.weather_data
      [] p = "Earth Imagery (EPIC)" -> v.epic_data

\* a step that is one run of a page
RunStep == page = "none" /\ page' # "none"

\* the run's call finds an entry of its arguments that is younger than the ttl
CallHits ==
    LET call == CachedCall(page', input')
    IN  Fresh(cache[call.fn], call.key, call.ttl)

\* a hit issues no request, returns the stored value and leaves the cache alone
ServedFromCache ==
    RunStep /\ CallHits =>
        LET call == CachedCall(page', input')
        IN  /\ requests' = <<>>
            /\ ReturnedTo(page', view') = cache[call.fn][call.key].ret
            /\ cache' = cache

\* without an entry, or with one as old as the ttl, the run fetches
FetchedOnMiss == RunStep /\ ~CallHits => Len(requests') = 1

\* a fetch that succeeded stores its value under the arguments, stamped now
StoredOnSuccess ==
    RunStep /\ ~CallHits /\ upstream'.kind = "ok" =>
        LET call == CachedCall(page', input')
        IN  cache' = [cache EXCEPT ![call.fn] =
                         Put(@, call.key, [ret |-> Some(upstream'.body),
                                           messages |-> {}, stored_at |-> now])]

\* a fetch that failed stores nothing
UnchangedOnFailure ==
    RunStep /\ ~CallHits /\ upstream'.kind # "ok" => cache' = cache

\* C12: in every run the cached fetch function looks its arguments up first: an
\* entry younger than the ttl (1 hour for rover photos, NEO and EPIC, 24 hours
\* for weather) is served without a request, a missing or expired one is
\* fetched again, and an entry is written only by a fetch that succeeded, so
\* a failed fetch leaves the cache as it was.
C12_CacheContract ==
    [][ServedFromCache /\ FetchedOnMiss /\ StoredOnSuccess /\ UnchangedOnFailure]_vars

=============================================================================
